---- MODULE Spec2Model ----
(***************************************************************************)
(* A model of tcpflow's one-page report (src/netviz/one_page_report.cpp):  *)
(* the statistics aggregation of one_page_report::ingest_packet and the    *)
(* single top-to-bottom layout pass of one_page_report::render.            *)
(***************************************************************************)
EXTENDS Integers, Sequences, FiniteSets, TLC

(***************************************************************************)
(* Bounds of the model.                                                    *)
(***************************************************************************)
\* the number of packets ingested before the report is rendered
MaxPackets == 2
\* the largest tv_sec of a packet's timestamp
MaxSec == 2

(***************************************************************************)
(* Program constants.                                                      *)
(***************************************************************************)
ETHERTYPE_IP == 2048
ETHERTYPE_IPV6 == 34525
ETHERTYPE_ARP == 2054
\* an ethertype that is none of the three the header names (802.1Q)
ETHERTYPE_VLAN == 33024
histogram_show_top_n_text == 3

(***************************************************************************)
(* Packet records (be13::packet_info), as ingest_packet reads them.        *)
(***************************************************************************)
timeval(s, u) == [tv_sec |-> s, tv_usec |-> u]

Timestamps == {timeval(s, u) : s \in 0..MaxSec, u \in 0..1}

packet_info(et, ver, tcp, src, dst, sport, dport, ts, caplen, datalen) ==
    [ether_type |-> et, ip_ver |-> ver, tcp |-> tcp, src |-> src, dst |-> dst,
     sport |-> sport, dport |-> dport, ts |-> ts, caplen |-> caplen,
     ip_datalen |-> datalen]

is_ip4(pi) == pi.ip_ver = 4
is_ip6(pi) == pi.ip_ver = 6
is_ip4_tcp(pi) == pi.ip_ver = 4 /\ pi.tcp
is_ip6_tcp(pi) == pi.ip_ver = 6 /\ pi.tcp

\* chronological order of two timestamps
TsLess(a, b) ==
    \/ a.tv_sec < b.tv_sec
    \/ a.tv_sec = b.tv_sec /\ a.tv_usec < b.tv_usec

TsLeq(a, b) == a = b \/ TsLess(a, b)

\* Records whose timestamps and capture lengths vary: an ARP frame and a
\* TCP/IPv4 segment at every timestamp.
TimeRecords ==
    {packet_info(ETHERTYPE_ARP, 0, FALSE, 0, 0, 0, 0, ts, 42, 0) :
        ts \in Timestamps}
    \cup
    {packet_info(ETHERTYPE_IP, 4, TRUE, 1, 2, 80, 22, ts, 60, 21) :
        ts \in Timestamps}

\* Records whose protocols, addresses, ports and payload lengths vary, all
\* captured at one timestamp.
Addrs == {1, 2}
T0 == timeval(1, 1)
\* <<source, destination, payload length>> of the IPv4 datagrams without TCP
IpFlows == {<<1, 1, 21>>, <<1, 2, 29>>, <<2, 1, 0>>}
\* <<source port, destination port, payload length>> of the TCP/IPv4 segments
TcpFlows == {<<80, 22, 21>>, <<22, 80, 29>>, <<80, 80, 0>>}

StoreRecords ==
    {packet_info(ETHERTYPE_ARP, 0, FALSE, 0, 0, 0, 0, T0, 42, 0),
     packet_info(ETHERTYPE_VLAN, 0, FALSE, 0, 0, 0, 0, T0, 64, 0),
     packet_info(ETHERTYPE_IPV6, 6, FALSE, 1, 2, 0, 0, T0, 62, 21),
     packet_info(ETHERTYPE_IPV6, 6, TRUE, 1, 2, 80, 22, T0, 74, 29)}
    \cup
    {packet_info(ETHERTYPE_IP, 4, FALSE, f[1], f[2], 0, 0, T0, 34 + f[3], f[3]) :
        f \in IpFlows}
    \cup
    {packet_info(ETHERTYPE_IP, 4, TRUE, 1, 2, f[1], f[2], T0, 54 + f[3], f[3]) :
        f \in TcpFlows}

\* Records whose capture lengths vary up to the megabytes: ARP frames
ByteLens == {1, 500, 999, 1000, 1005, 1125, 1500, 999999, 1250000}

ByteRecords ==
    {packet_info(ETHERTYPE_ARP, 0, FALSE, 0, 0, 0, 0, T0, n, 0) : n \in ByteLens}

(***************************************************************************)
(* The ranked aggregate stores (iptree, port_histogram, time_histogram):   *)
(* a store maps each key it was fed to the weight accumulated under it.    *)
(***************************************************************************)
EmptyStore == << >>

add(store, key, weight) ==
    IF key \in DOMAIN store
        THEN [store EXCEPT ![key] = @ + weight]
        ELSE store @@ (key :> weight)

RECURSIVE SumOver(_, _)
SumOver(f, keys) ==
    IF keys = {} THEN 0
    ELSE LET k == CHOOSE x \in keys : TRUE
         IN  f[k] + SumOver(f, keys \ {k})

\* the sum of all weights ever added to a store
total(store) == SumOver(store, DOMAIN store)

\* the entries of a store, those of nonzero weight, in descending-weight order;
\* entries of equal weight are ordered by the number order gives their keys
ranked(store, order) ==
    LET keys == {k \in DOMAIN store : store[k] > 0}
        before(k) == {j \in keys : \/ store[j] > store[k]
                                   \/ store[j] = store[k] /\ order[j] < order[k]}
    IN  [i \in 1..Cardinality(keys) |->
            LET key == CHOOSE k \in keys : Cardinality(before(k)) = i - 1
            IN  [key |-> key, count |-> store[key]]]

\* ports in numeric order
PortOrder(store) == [p \in DOMAIN store |-> p]

\* addresses in the order of their length, then of their value
AddrOrder(tree) == [a \in DOMAIN tree |-> a[1] * (1 + Cardinality(Addrs)) + a[2]]

\* the histograms the charts are drawn from: the ranked entries of a store and
\* the total ingested into it
address_histogram(tree) ==
    [buckets |-> ranked(tree, AddrOrder(tree)), ingested |-> total(tree)]

port_histogram(store) ==
    [buckets |-> ranked(store, PortOrder(store)), ingested |-> total(store)]

size(data) == Len(data.buckets)

\* at(rank), for a zero-based rank below size()
at(data, rank) == data.buckets[rank + 1]

ingest_count(data) == data.ingested

(***************************************************************************)
(* IEEE-754 binary64 arithmetic, as far as the percentage computation of   *)
(* the ranked lists needs it.  A double is [hi, mid, lo, e]: three limbs   *)
(* of 18 bits that hold its 53-bit significand followed by one zero bit,   *)
(* and an exponent; its value is                                           *)
(*     (hi * 2^36 + mid * 2^18 + lo) * 2^(e - 54).                         *)
(* A product keeps its longer first limb (hi up to 25 bits).               *)
(***************************************************************************)
PowersOf2 ==
    <<1, 2, 4, 8, 16, 32, 64, 128, 256, 512, 1024, 2048, 4096, 8192, 16384,
      32768, 65536, 131072, 262144, 524288, 1048576, 2097152, 4194304,
      8388608, 16777216, 33554432, 67108864, 134217728, 268435456,
      536870912, 1073741824>>

\* 2^n for n in 0..30
Pow2(n) == PowersOf2[n + 1]

\* hi, mid and lo with the carry of each limb taken into the next
Carried(hi, mid, lo, e) ==
    [hi |-> hi + (mid + lo \div Pow2(18)) \div Pow2(18),
     mid |-> (mid + lo \div Pow2(18)) % Pow2(18),
     lo |-> lo % Pow2(18),
     e |-> e]

\* n rounded to the nearest multiple of 2^(x + 1), ties to the even one;
\* sticky when nonzero bits were cut off below n
RoundNearestEven(n, x, sticky) ==
    LET guard == (n.lo \div Pow2(x)) % 2
        odd == (n.lo \div Pow2(x + 1)) % 2
        below == sticky \/ n.lo % Pow2(x) # 0
        up == guard = 1 /\ (below \/ odd = 1)
    IN  Carried(n.hi, n.mid,
                (n.lo - (n.lo % Pow2(x + 1))) + (IF up THEN Pow2(x + 1) ELSE 0),
                n.e)

\* (double) c / (double) t for integers 0 < c, t < 2^21
double_div(c, t) ==
    LET \* t * 2^y is the first to exceed c, c * 2^z is the last below it
        y == CHOOSE i \in 0..21 :
                c < t * Pow2(i) /\ (i = 0 \/ c >= t * Pow2(i - 1))
        z == IF y > 0 THEN 0
             ELSE CHOOSE i \in 0..21 : c * Pow2(i) < t /\ c * Pow2(i + 1) >= t
        d == t * Pow2(y)
        \* the first 54 bits of c * 2^z / d, which is in [1/2, 1), nine at a time
        r0 == c * Pow2(z)
        r1 == (r0 * 512) % d
        r2 == (r1 * 512) % d
        r3 == (r2 * 512) % d
        r4 == (r3 * 512) % d
        r5 == (r4 * 512) % d
        r6 == (r5 * 512) % d
        n == [hi |-> ((r0 * 512) \div d) * 512 + (r1 * 512) \div d,
              mid |-> ((r2 * 512) \div d) * 512 + (r3 * 512) \div d,
              lo |-> ((r4 * 512) \div d) * 512 + (r5 * 512) \div d,
              e |-> y - z]
    IN  RoundNearestEven(n, 0, r6 # 0)

\* d * k for a double d and an integer k in 1..127
double_mul(d, k) ==
    LET p == Carried(d.hi * k, d.mid * k, d.lo * k, d.e)
        \* the product is x bits longer than a significand
        x == CHOOSE i \in 0..7 : p.hi < Pow2(18 + i) /\ p.hi >= Pow2(17 + i)
    IN  RoundNearestEven(p, x, FALSE)

\* the integer part of a double, 256 standing for every value above 255
double_trunc(d) ==
    IF d.e > 18 THEN 256
    ELSE IF d.e < -12 THEN 0
    ELSE IF d.hi \div Pow2(18 - d.e) > 255 THEN 256
    ELSE d.hi \div Pow2(18 - d.e)

\* ((double) count / (double) total) * 100.0 truncated, for total > 0
percentage(count, total_ingested) ==
    double_trunc(double_mul(double_div(count, total_ingested), 100))

\* what the conversion to uint8_t may give where it is undefined: after a
\* division by zero (an infinite quotient), or of a value above 255
UndefinedPercentages == {0, 255}

(***************************************************************************)
(* one_page_report::pretty_byte_total, for byte totals below 4 * 10^6.     *)
(***************************************************************************)
\* build_size_suffixes
size_suffixes == <<"", "K", "M", "G", "T", "P", "E">>

\* stands for 0x8000000000000000, the integer indefinite value
UINT64_INDEFINITE == 2147483647

\* what the conversion of log(0) / log(1000), minus infinity, to uint64_t may
\* give: it is undefined
UndefinedIndexes == {0, UINT64_INDEFINITE}

\* a faulty index, which counts in powers of 1024
size_log_1024(byte_count, undef_index) ==
    IF byte_count = 0 THEN undef_index
    ELSE IF byte_count < 1024 THEN 0
    ELSE IF byte_count < 1048576 THEN 1
    ELSE 2

\* (uint64_t) (log(byte_count) / log(1000)); below 4 * 10^6 the quotient of
\* the two logarithms is an integer at the powers of 1000 only
size_log_1000(byte_count, undef_index) ==
    IF byte_count = 0 THEN undef_index
    ELSE IF byte_count < 1000 THEN 0
    ELSE IF byte_count < 1000000 THEN 1
    ELSE 2

\* pow(1000.0, k) for k in 0..2
pow_1000(k) == <<1, 1000, 1000000>>[k + 1]

\* what "%.2f" prints of a double below 1000, in hundredths: its exact value
\* rounded to the nearest hundredth, ties to the even one
printf_2f(d) ==
    LET p == Carried(d.hi * 100, d.mid * 100, d.lo * 100, d.e)
        s == 18 - d.e
        whole == p.hi \div Pow2(s)
        frac == p.hi % Pow2(s)
        half == Pow2(s - 1)
        up == \/ frac > half
              \/ frac = half /\ (p.mid # 0 \/ p.lo # 0 \/ whole % 2 = 1)
    IN  whole + (IF up THEN 1 ELSE 0)

\* the text pretty_byte_total returns, <<hundredths, suffix>> standing for
\* "%.2f %s", and the argument it took the logarithm of
pretty_byte_total(byte_count, undef_index) ==
    LET size_log == size_log_1000(byte_count, undef_index)
        k == IF size_log >= Len(size_suffixes) THEN 0 ELSE size_log
        scaled == IF byte_count = 0 THEN 0
                  ELSE printf_2f(double_div(byte_count, pow_1000(k)))
    IN  [text |-> <<scaled, size_suffixes[k + 1]>>, log_of |-> byte_count]

(***************************************************************************)
(* Page constants.  Lengths are in page units; the layout cursor and the   *)
(* blocks' offsets and heights are kept in tenths of a page unit.          *)
(***************************************************************************)
header_font_size == 8
top_list_font_size == 8
\* header_font_size * line_space_factor (0.25), in tenths of a page unit
title_line_space == (header_font_size * 25) \div 10
\* histogram_pad_factor_y (1.0), in tenths
histogram_pad_factor_y == 10
packet_histogram_height == 100
address_histogram_height == 125
port_histogram_height == 100

\* the height cairo_text_extents measures for a line of text, in page units
extents_height(font_size, text) ==
    IF text = "title_version" THEN font_size - 2 ELSE font_size - 1

\* stands for a double that is not a number
NaN == -1000000

\* what an uninitialized cairo_text_extents_t may hold as its height
UninitHeights == {0, 20, NaN}

\* a < b, a + b and a * k of doubles
Less(a, b) == a # NaN /\ b # NaN /\ a < b

plus(a, b) == IF a = NaN \/ b = NaN THEN NaN ELSE a + b

times(a, k) == IF a = NaN THEN NaN ELSE a * k

\* std::max
Max(a, b) == IF Less(a, b) THEN b ELSE a

VARIABLES
    trace,               \* the records ingested so far, in order
    packet_count,
    byte_count,
    earliest,
    latest,
    transport_counts,
    src_tree,
    dst_tree,
    packet_histogram,
    src_port_histogram,
    dst_port_histogram,
    pc,                  \* "ingest", or the last step render has taken
    surface,             \* the status of the cairo surface of the render
    debug,               \* whether DEBUG is set in the environment
    end_of_content,      \* the layout cursor of the render pass
    emitted,             \* the blocks drawn so far: [block, y, height]
    lines,               \* the rank lines formatted so far
    divisions,           \* the divisions render performed: [site, den]
    titles,              \* the titles given to the ranked charts: [view, title]
    rows,                \* the rank rows passed: [chart, rank, left, right, advance]
    analyzed             \* the byte total formatted for the header

aggregates == <<packet_count, byte_count, earliest, latest, transport_counts,
                src_tree, dst_tree, packet_histogram, src_port_histogram,
                dst_port_histogram>>

pass == <<end_of_content, emitted, lines, divisions, titles, rows, analyzed>>

vars == <<trace, aggregates, pc, surface, debug, pass>>

Init ==
    /\ trace = << >>
    /\ packet_count = 0
    /\ byte_count = 0
    /\ earliest = timeval(0, 0)
    /\ latest = timeval(0, 0)
    /\ transport_counts = EmptyStore
    /\ src_tree = EmptyStore
    /\ dst_tree = EmptyStore
    /\ packet_histogram = << >>
    /\ src_port_histogram = EmptyStore
    /\ dst_port_histogram = EmptyStore
    /\ pc = "ingest"
    /\ surface = "none"
    /\ debug \in BOOLEAN
    /\ end_of_content = 0
    /\ emitted = << >>
    /\ lines = << >>
    /\ divisions = << >>
    /\ titles = << >>
    /\ rows = << >>
    /\ analyzed = << >>

(***************************************************************************)
(* one_page_report::ingest_packet                                          *)
(***************************************************************************)
update_earliest(cur, ts) == IF cur.tv_sec = 0 THEN ts ELSE cur

update_latest(cur, ts) ==
    IF ts.tv_sec > cur.tv_sec /\ ts.tv_usec > cur.tv_usec THEN ts ELSE cur

\* a faulty byte counter, which adds the payload length
count_bytes_datalen(count, pi) == count + pi.ip_datalen

count_bytes(count, pi) == count + pi.caplen

\* a faulty classification, which takes every record that is not IPv6 for IPv4
address_len_any(pi) == IF is_ip6(pi) THEN 16 ELSE 4

\* the address length ingest_packet feeds the address trees with, 0 for none
address_len(pi) ==
    IF is_ip4(pi) THEN 4 ELSE IF is_ip6(pi) THEN 16 ELSE 0

\* a faulty classification, which lets every IP record reach the TCP views
feeds_tcp_any_ip(pi) == is_ip4(pi) \/ is_ip6(pi)

\* whether ingest_packet reaches the TCP views
feeds_tcp(pi) ==
    IF is_ip4(pi) THEN is_ip4_tcp(pi)
    ELSE IF is_ip6(pi) THEN is_ip6_tcp(pi)
    ELSE FALSE

\* a faulty feed, which records the source address with no weight
fed_src_tree_unweighted(tree, pi) == add(tree, <<address_len(pi), pi.src>>, 0)

\* a faulty feed, which weighs the destination address by the capture length
fed_dst_tree_caplen(tree, pi) == add(tree, <<address_len(pi), pi.dst>>, pi.caplen)

\* src_tree.add and dst_tree.add of the record's address and payload length
fed_src_tree(tree, pi) == add(tree, <<address_len(pi), pi.src>>, pi.ip_datalen)

fed_dst_tree(tree, pi) == add(tree, <<address_len(pi), pi.dst>>, pi.ip_datalen)

ingest_packet(pi) ==
    /\ pc = "ingest"
    /\ Len(trace) < MaxPackets
    /\ trace' = Append(trace, pi)
    /\ earliest' = update_earliest(earliest, pi.ts)
    /\ latest' = update_latest(latest, pi.ts)
    /\ packet_count' = packet_count + 1
    /\ byte_count' = count_bytes(byte_count, pi)
    /\ transport_counts' = add(transport_counts, pi.ether_type, 1)
    /\ IF address_len(pi) # 0
        THEN /\ src_tree' = fed_src_tree(src_tree, pi)
             /\ dst_tree' = fed_dst_tree(dst_tree, pi)
        ELSE UNCHANGED <<src_tree, dst_tree>>
    /\ IF feeds_tcp(pi)
        THEN /\ packet_histogram' = Append(packet_histogram, <<pi.ts, pi.sport>>)
             /\ src_port_histogram' = add(src_port_histogram, pi.sport, pi.ip_datalen)
             /\ dst_port_histogram' = add(dst_port_histogram, pi.dport, pi.ip_datalen)
        ELSE UNCHANGED <<packet_histogram, src_port_histogram, dst_port_histogram>>
    /\ UNCHANGED <<pc, surface, debug, pass>>

(***************************************************************************)
(* one_page_report::render and its render_pass.  A pass state is           *)
(* [cursor, emitted, lines, divisions].                                    *)
(***************************************************************************)
ThePass == [cursor |-> end_of_content, emitted |-> emitted, lines |-> lines,
            divisions |-> divisions, titles |-> titles, rows |-> rows,
            analyzed |-> analyzed]

SetPass(p) ==
    /\ end_of_content' = p.cursor
    /\ emitted' = p.emitted
    /\ lines' = p.lines
    /\ divisions' = p.divisions
    /\ titles' = p.titles
    /\ rows' = p.rows
    /\ analyzed' = p.analyzed

\* render_pass::render_text: the text drawn at the cursor
render_text(p, text, font_size) ==
    [p EXCEPT !.emitted = Append(@, [block |-> text, y |-> p.cursor,
                                     height |-> 10 * extents_height(font_size, text)])]

\* render_pass::render_text_line
render_text_line(p, text, font_size, line_space) ==
    [render_text(p, text, font_size) EXCEPT
        !.cursor = plus(@, 10 * extents_height(font_size, text) + line_space)]

\* a faulty chart, which leaves a line space below itself
render_chart_spaced(p, name) ==
    [p EXCEPT !.emitted = Append(@, [block |-> name, y |-> p.cursor,
                                     height |-> 10 * packet_histogram_height]),
              !.cursor = plus(@, packet_histogram_height * histogram_pad_factor_y
                                    + title_line_space)]

\* a full-width chart of packet_histogram_height
render_chart(p, name) ==
    [p EXCEPT !.emitted = Append(@, [block |-> name, y |-> p.cursor,
                                     height |-> 10 * packet_histogram_height]),
              !.cursor = plus(@, packet_histogram_height * histogram_pad_factor_y)]

\* the creation of the surface and of the pass (lines 128 to 141)
render_begin ==
    /\ pc = "ingest"
    /\ pc' = "begin"
    /\ surface' \in {"ok", "error"}
    /\ SetPass([cursor |-> 0, emitted |-> << >>, lines |-> << >>,
                divisions |-> << >>, titles |-> << >>, rows |-> << >>,
                analyzed |-> << >>])
    /\ UNCHANGED <<trace, aggregates, debug>>

\* the sum the header's loop over transport_counts computes
transport_total(counts) == SumOver(counts, DOMAIN counts)

\* transport_counts once the header has read it with operator[]
header_transport_counts(counts) ==
    add(add(add(counts, ETHERTYPE_IP, 0), ETHERTYPE_IPV6, 0), ETHERTYPE_ARP, 0)

\* the header's division by transport_total
header_divides(p, den) ==
    [p EXCEPT !.divisions = Append(@, [site |-> "transports", den |-> den])]

\* the byte total of the "Packets analyzed" line, "%sB" of pretty_byte_total
header_analyzed(p, bytes, undef_index) ==
    [p EXCEPT !.analyzed = pretty_byte_total(bytes, undef_index).text \o <<"B">>]

header_pass(p, counts, bytes, undef_index) ==
    LET l1 == render_text_line(p, "title_version", header_font_size, title_line_space)
        l2 == render_text_line(l1, "input", header_font_size, title_line_space)
        l3 == render_text_line(l2, "generated", header_font_size, title_line_space)
        p3 == [l3 EXCEPT !.cursor = plus(@, title_line_space * 4)]
        l4 == render_text_line(p3, "date_range", header_font_size, title_line_space)
        l5 == render_text_line(header_analyzed(l4, bytes, undef_index),
                               "packets", header_font_size, title_line_space)
        l6 == render_text_line(header_divides(l5, transport_total(counts)),
                               "transports", header_font_size, title_line_space)
    IN  [l6 EXCEPT !.cursor = plus(@, title_line_space * 4)]

render_header ==
    /\ pc = "begin"
    /\ pc' = "header"
    /\ \E undef_index \in UndefinedIndexes :
            SetPass(header_pass(ThePass, transport_counts, byte_count, undef_index))
    /\ transport_counts' = header_transport_counts(transport_counts)
    /\ UNCHANGED <<trace, packet_count, byte_count, earliest, latest, src_tree,
                   dst_tree, packet_histogram, src_port_histogram,
                   dst_port_histogram, surface, debug>>

render_time_histogram ==
    /\ pc = "header"
    /\ pc' = "time_histogram"
    /\ SetPass(render_chart(ThePass, "time_histogram"))
    /\ UNCHANGED <<trace, aggregates, surface, debug>>

\* a faulty step, which draws the map whether DEBUG is set or not
render_map_always ==
    /\ pc = "time_histogram"
    /\ pc' = "map"
    /\ SetPass(render_chart(ThePass, "map"))
    /\ UNCHANGED <<trace, aggregates, surface, debug>>

render_map ==
    /\ pc = "time_histogram"
    /\ debug
    /\ pc' = "map"
    /\ SetPass(render_chart(ThePass, "map"))
    /\ UNCHANGED <<trace, aggregates, surface, debug>>

render_packetfall ==
    /\ pc = "map"
    /\ pc' = "packetfall"
    /\ SetPass(render_chart(ThePass, "packetfall"))
    /\ UNCHANGED <<trace, aggregates, surface, debug>>

\* whether a side of a pair prints its line of rank ii
has_rank(data, ii) == size(data) > ii /\ at(data, ii).count > 0

\* the total a pair's percentages are computed against
pair_total(left_data, right_data) == ingest_count(left_data)

\* the percentage printed for count: undef where the conversion is undefined
shown_percentage(count, total_ingested, undef) ==
    IF total_ingested = 0 THEN undef
    ELSE IF percentage(count, total_ingested) > 255 THEN undef
    ELSE percentage(count, total_ingested)

\* pretty_byte_total of the count of a ranked entry, which is above zero
pretty_count(count) == pretty_byte_total(count, 0).text

\* one side's line of rank ii formatted and drawn
rank_line(p, chart, side, data, ii, total_ingested, undef) ==
    LET entry == at(data, ii)
        drawn == render_text(p, "rank", top_list_font_size)
    IN  [drawn EXCEPT
            !.lines = Append(@, [chart |-> chart, side |-> side, rank |-> ii + 1,
                                 key |-> entry.key, count |-> entry.count,
                                 bytes |-> pretty_count(entry.count) \o <<"B">>,
                                 percentage |-> shown_percentage(entry.count,
                                                                total_ingested, undef)]),
            !.divisions = Append(@, [site |-> chart, den |-> total_ingested])]

\* the body of the loop over the ranks; garbage is what the extents of a side
\* that drew nothing hold
rank_row(p, chart, left, right, ii, total_ingested, garbage, undef) ==
    LET l == has_rank(left, ii)
        r == has_rank(right, ii)
        p1 == IF l THEN rank_line(p, chart, "left", left, ii, total_ingested, undef)
                   ELSE p
        p2 == IF r THEN rank_line(p1, chart, "right", right, ii, total_ingested, undef)
                   ELSE p1
        lh == IF l THEN extents_height(top_list_font_size, "rank") ELSE garbage
        rh == IF r THEN extents_height(top_list_font_size, "rank") ELSE garbage
        advance == IF l \/ r THEN times(Max(lh, rh), 15) ELSE 0
    IN  [p2 EXCEPT !.cursor = plus(@, advance),
                   !.rows = Append(@, [chart |-> chart, rank |-> ii, left |-> l,
                                       right |-> r, advance |-> advance])]

RECURSIVE rank_rows(_, _, _, _, _, _, _, _)
rank_rows(p, chart, left, right, ii, total_ingested, garbage, undef) ==
    IF ii >= histogram_show_top_n_text THEN p
    ELSE rank_rows(rank_row(p, chart, left, right, ii, total_ingested,
                            IF ii \in DOMAIN garbage THEN garbage[ii] ELSE 0,
                            undef),
                   chart, left, right, ii + 1, total_ingested, garbage, undef)

\* the ranks at which one side only prints a line: their rows read the
\* extents of the side that drew nothing
one_sided(left, right) ==
    {ii \in 0..(histogram_show_top_n_text - 1) :
        has_rank(left, ii) # has_rank(right, ii)}

\* render_pass::render of a pair of charts of a height, and their rank lines
pair_pass(p, chart, left, right, height, garbage, undef) ==
    LET charts == [p EXCEPT
            !.emitted = @ \o <<[block |-> chart, y |-> p.cursor, height |-> 10 * height],
                               [block |-> chart, y |-> p.cursor, height |-> 10 * height]>>,
            !.cursor = plus(@, 10 * Max(height, height))]
        ranks == rank_rows(charts, chart, left, right, 0,
                          pair_total(left, right), garbage, undef)
    IN  [ranks EXCEPT
            !.cursor = plus(@, Max(height, height) * (histogram_pad_factor_y - 10))]

\* a faulty title, which is the "Top" one for every chart
view_title_top(data, top, none) == top

\* the title a ranked chart is given
view_title(data, top, none) == IF size(data) > 0 THEN top ELSE none

titled(p, view, title) ==
    [p EXCEPT !.titles = Append(@, [view |-> view, title |-> title])]

\* the titles of the two address charts
address_titles(p, src, dst) ==
    titled(titled(p, "src_ah_view",
                  view_title(src, "Top Source Addresses", "No Source Addresses")),
           "dst_ah_view",
           view_title(dst, "Top Destination Addresses", "No Destination Addresses"))

\* the titles of the two port charts
port_titles(p, src, dst) ==
    titled(titled(p, "sp_view",
                  view_title(src, "Top Source Ports", "No Source Ports")),
           "dp_view",
           view_title(dst, "Top Destination Ports", "No Destination Ports"))

render_address_histograms ==
    /\ \/ pc = "time_histogram" /\ ~debug
       \/ pc = "packetfall"
    /\ pc' = "address"
    /\ \E garbage \in [one_sided(address_histogram(src_tree),
                                   address_histogram(dst_tree)) -> UninitHeights],
          undef \in UndefinedPercentages :
            SetPass(pair_pass(address_titles(ThePass, address_histogram(src_tree),
                                             address_histogram(dst_tree)),
                              "address", address_histogram(src_tree),
                              address_histogram(dst_tree),
                              address_histogram_height, garbage, undef))
    /\ UNCHANGED <<trace, aggregates, surface, debug>>

render_port_histograms ==
    /\ pc = "address"
    /\ pc' = "port"
    /\ \E garbage \in [one_sided(port_histogram(src_port_histogram),
                                   port_histogram(dst_port_histogram)) -> UninitHeights],
          undef \in UndefinedPercentages :
            SetPass(pair_pass(port_titles(ThePass, port_histogram(src_port_histogram),
                                          port_histogram(dst_port_histogram)),
                              "port", port_histogram(src_port_histogram),
                              port_histogram(dst_port_histogram),
                              port_histogram_height, garbage, undef))
    /\ UNCHANGED <<trace, aggregates, surface, debug>>

\* cairo_destroy and cairo_surface_destroy
render_cleanup ==
    /\ pc = "port"
    /\ pc' = "done"
    /\ surface' = "destroyed"
    /\ UNCHANGED <<trace, aggregates, debug, pass>>

\* an exception of one of the calls of the pass (a chart's rendering, the
\* formatting of a line) leaves render: nothing in render catches it
render_throws ==
    /\ pc \in {"begin", "header", "time_histogram", "map", "packetfall", "address"}
    /\ pc' = "thrown"
    /\ UNCHANGED <<trace, aggregates, surface, debug, pass>>

RenderStep ==
    \/ render_begin
    \/ render_header
    \/ render_time_histogram
    \/ render_map
    \/ render_packetfall
    \/ render_address_histograms
    \/ render_port_histograms
    \/ render_cleanup
    \/ render_throws

Next ==
    \/ \E pi \in StoreRecords : ingest_packet(pi)
    \/ RenderStep

Spec == Init /\ [][Next]_vars

NextTime ==
    \/ \E pi \in TimeRecords : ingest_packet(pi)
    \/ RenderStep

SpecTime == Init /\ [][NextTime]_vars

NextBytes ==
    \/ \E pi \in ByteRecords : ingest_packet(pi)
    \/ RenderStep

SpecBytes == Init /\ [][NextBytes]_vars

(***************************************************************************)
(* Properties of ingest_packet.                                            *)
(***************************************************************************)
RECURSIVE SumCaplen(_)
SumCaplen(records) ==
    IF records = << >> THEN 0
    ELSE records[1].caplen + SumCaplen(Tail(records))

\* C1: after any sequence of N ingests of any mix of records, packet_count is
\* N and byte_count is the sum of the capture lengths of the N records.
C1_Counters ==
    /\ packet_count = Len(trace)
    /\ byte_count = SumCaplen(trace)

\* two records of different protocols and capture lengths have been counted
C1_Witness ==
    /\ Len(trace) = 2
    /\ trace[1].ether_type = ETHERTYPE_ARP
    /\ is_ip4_tcp(trace[2])
    /\ trace[1].caplen # trace[2].caplen
    /\ byte_count = trace[1].caplen + trace[2].caplen

\* C2: once a record has been ingested, earliest is chronologically no later
\* than latest.
C2_EarliestLeqLatest == trace # << >> => TsLeq(earliest, latest)

\* the chronological maximum of the timestamps of a nonempty sequence of records
MaxTs(records) ==
    LET stamps == {records[i].ts : i \in 1..Len(records)}
    IN  CHOOSE m \in stamps : \A t \in stamps : TsLeq(t, m)

\* C3: after any sequence of ingests, latest is the chronological maximum of
\* the ingested timestamps.
C3_LatestIsMax == trace # << >> => latest = MaxTs(trace)

\* the record an ingest step has just appended to the trace
Ingested == trace'[Len(trace')]

IsIngest == Len(trace') = Len(trace) + 1

\* C4: ingesting a record that is neither IPv4 nor IPv6 leaves the address
\* stores, the port histograms and the time histogram as they were.
C4_NonIpFrame ==
    [][IsIngest /\ Ingested.ip_ver \notin {4, 6}
        => UNCHANGED <<src_tree, dst_tree, src_port_histogram,
                       dst_port_histogram, packet_histogram>>]_vars

\* a non-IP record was ingested into a report whose stores hold a TCP segment
C4_Witness ==
    /\ Len(trace) = 2
    /\ is_ip4_tcp(trace[1])
    /\ trace[1].ip_datalen > 0
    /\ trace[2].ether_type \in {ETHERTYPE_ARP, ETHERTYPE_VLAN}
    /\ packet_count = 2
    /\ total(src_tree) = trace[1].ip_datalen
    /\ Len(packet_histogram) = 1

\* C5: every IPv4 or IPv6 record adds its payload length to both address
\* stores; a record is added to the time histogram and to both port histograms
\* if it is TCP over IPv4 or IPv6, and leaves all three unchanged if it is not.
C5_IpAndTcpFeeds ==
    [][IsIngest =>
        LET pi == Ingested
            ip == pi.ip_ver \in {4, 6}
            key(a) == <<IF pi.ip_ver = 4 THEN 4 ELSE 16, a>>
        IN  /\ ip => /\ src_tree' = add(src_tree, key(pi.src), pi.ip_datalen)
                     /\ dst_tree' = add(dst_tree, key(pi.dst), pi.ip_datalen)
            /\ IF ip /\ pi.tcp
                THEN /\ packet_histogram' = Append(packet_histogram, <<pi.ts, pi.sport>>)
                     /\ src_port_histogram' =
                            add(src_port_histogram, pi.sport, pi.ip_datalen)
                     /\ dst_port_histogram' =
                            add(dst_port_histogram, pi.dport, pi.ip_datalen)
                ELSE UNCHANGED <<packet_histogram, src_port_histogram,
                                 dst_port_histogram>>]_vars

\* an IP record without TCP was ingested after a TCP segment: the address
\* stores hold both, the TCP stores only the segment
C5_Witness ==
    /\ Len(trace) = 2
    /\ is_ip6_tcp(trace[1])
    /\ is_ip4(trace[2]) /\ ~trace[2].tcp
    /\ trace[2].ip_datalen > 0
    /\ total(src_tree) = trace[1].ip_datalen + trace[2].ip_datalen
    /\ total(dst_tree) = total(src_tree)
    /\ total(src_port_histogram) = trace[1].ip_datalen
    /\ Len(packet_histogram) = 1

(***************************************************************************)
(* Properties of render.                                                   *)
(***************************************************************************)
\* the total of the store a rank line's entry was read from
OwnTotal(line) ==
    IF line.chart = "address"
        THEN IF line.side = "left" THEN total(src_tree) ELSE total(dst_tree)
        ELSE IF line.side = "left" THEN total(src_port_histogram)
                                   ELSE total(dst_port_histogram)

\* C6: every rank line of the address pair and of the port pair shows
\* floor(count * 100 / T), T being the total of the line's own side's store.
C6_FloorPercentage ==
    \A i \in 1..Len(lines) :
        /\ OwnTotal(lines[i]) > 0
        /\ lines[i].percentage = (lines[i].count * 100) \div OwnTotal(lines[i])

\* C7: no rank line of the address pair or of the port pair is formatted
\* with a total of zero as the denominator of its percentage.
C7_PositiveDenominators ==
    \A i \in 1..Len(divisions) :
        divisions[i].site \in {"address", "port"} => divisions[i].den > 0

\* a render has formatted rank lines on both sides of both pairs
C7_Witness ==
    /\ pc = "done"
    /\ \A chart \in {"address", "port"}, side \in {"left", "right"} :
        \E i \in 1..Len(lines) : lines[i].chart = chart /\ lines[i].side = side
    /\ \E i \in 1..Len(divisions) : divisions[i].site = "port"

\* C8: render_header never divides by a transport_total of zero.
C8_HeaderSkipsZeroTotal ==
    \A i \in 1..Len(divisions) :
        divisions[i].site = "transports" => divisions[i].den > 0

\* C9: nothing is laid out on a surface whose creation failed.
C9_NoLayoutOnFailedSurface == surface = "error" => emitted = << >>

\* C10: no step of render changes an aggregate, the keys of transport_counts
\* included.
C10_AggregatesFrozen == [][pc' # "ingest" => UNCHANGED aggregates]_vars

(***************************************************************************)
(* Further properties of ingest_packet.                                    *)
(***************************************************************************)
\* C15: after any nonempty sequence of ingests, earliest is the timestamp of
\* the first ingested record.
C15_EarliestIsFirst == trace # << >> => earliest = trace[1].ts

\* C20: the source and the destination address store hold the same total
\* weight, and so do the source and the destination port histogram.
C20_EqualTotals ==
    /\ total(src_tree) = total(dst_tree)
    /\ total(src_port_histogram) = total(dst_port_histogram)

\* both pairs of stores were fed, with different keys on their two sides
C20_Witness ==
    /\ Len(trace) = 2
    /\ total(src_tree) > total(src_port_histogram)
    /\ total(src_port_histogram) > 0
    /\ DOMAIN src_tree # DOMAIN dst_tree
    /\ DOMAIN src_port_histogram # DOMAIN dst_port_histogram

(***************************************************************************)
(* Properties of the layout pass.                                          *)
(***************************************************************************)
\* a <= b of doubles
Leq(a, b) == a # NaN /\ b # NaN /\ a <= b

\* two blocks of one row: the two charts of a pair, the two lines of a rank
Beside(a, b) == a.block = b.block /\ a.y = b.y

\* C11: the layout cursor never decreases, and every block is drawn at or
\* below the end of every block emitted before it that is not beside it.
C11_CursorMonotone ==
    /\ [][Leq(end_of_content, end_of_content')]_vars
    /\ [](\A j \in 1..Len(emitted) :
            /\ Leq(plus(emitted[j].y, emitted[j].height), end_of_content)
            /\ \A i \in 1..(j - 1) :
                \/ Beside(emitted[i], emitted[j])
                \/ Leq(plus(emitted[i].y, emitted[i].height), emitted[j].y))

\* C12: the surface is destroyed on every path that leaves render.
C12_SurfaceReleased == pc \in {"done", "thrown"} => surface = "destroyed"

(***************************************************************************)
(* Properties of pretty_byte_total.                                        *)
(***************************************************************************)
\* floor(log_1000(n)) for 1 <= n < 10^9
FloorLog1000(n) ==
    CHOOSE k \in 0..2 :
        <<1, 1000, 1000000, 1000000000>>[k + 1] <= n
            /\ n < <<1, 1000, 1000000, 1000000000>>[k + 2]

\* value is n / 1000^k to the nearest hundredth and suffix the k-th of
\* "", K, M, G, T, P, E, for k = floor(log_1000(n))
ScaledBy1000(value, suffix, n) ==
    LET k == FloorLog1000(n)
        unit == <<1, 1000, 1000000>>[k + 1]
        diff == value * unit - 100 * n
    IN  /\ suffix = <<"", "K", "M", "G", "T", "P", "E">>[k + 1]
        /\ 2 * diff <= unit
        /\ -2 * diff <= unit

C14_ZeroSpecialCased ==
    analyzed # << >> =>
        /\ pretty_byte_total(byte_count, 0).log_of > 0
        /\ \A u \in UndefinedIndexes :
            size_log_1000(byte_count, u) < Len(size_suffixes)

(***************************************************************************)
(* Properties of the sections of the report.                               *)
(***************************************************************************)
\* the store a ranked chart is drawn from
StoreOf(view) ==
    CASE view = "src_ah_view" -> src_tree
      [] view = "dst_ah_view" -> dst_tree
      [] view = "sp_view" -> src_port_histogram
      [] view = "dp_view" -> dst_port_histogram

TopTitle(view) ==
    CASE view = "src_ah_view" -> "Top Source Addresses"
      [] view = "dst_ah_view" -> "Top Destination Addresses"
      [] view = "sp_view" -> "Top Source Ports"
      [] view = "dp_view" -> "Top Destination Ports"

NoTitle(view) ==
    CASE view = "src_ah_view" -> "No Source Addresses"
      [] view = "dst_ah_view" -> "No Destination Addresses"
      [] view = "sp_view" -> "No Source Ports"
      [] view = "dp_view" -> "No Destination Ports"

\* C16: each of the four ranked charts is titled "Top ..." if its store has
\* an entry (a key of nonzero weight) and "No ..." if it has none; a store
\* that received no record yields "No ...".
C16_TopOrNoTitle ==
    /\ \A i \in 1..Len(titles) :
        LET view == titles[i].view
            store == StoreOf(view)
        IN  /\ titles[i].title =
                    IF \E k \in DOMAIN store : store[k] > 0
                        THEN TopTitle(view) ELSE NoTitle(view)
            /\ store = EmptyStore => titles[i].title = NoTitle(view)
    /\ pc \in {"port", "done"} =>
        {titles[i].view : i \in 1..Len(titles)} =
            {"src_ah_view", "dst_ah_view", "sp_view", "dp_view"}

\* a report of IP datagrams without TCP: "Top" addresses and "No" ports
C16_Witness ==
    /\ pc = "done"
    /\ total(src_tree) > 0
    /\ src_port_histogram = EmptyStore
    /\ \E i \in 1..Len(titles) : titles[i].title = "Top Source Addresses"
    /\ \E i \in 1..Len(titles) : titles[i].title = "No Destination Ports"

\* C17: a row of a pair in which a line was drawn advances the cursor by 1.5
\* times the height of the lines drawn in it, and a row in which none was
\* drawn does not move the cursor.
C17_RowAdvance ==
    \A i \in 1..Len(rows) :
        rows[i].advance =
            IF rows[i].left \/ rows[i].right
                THEN 15 * extents_height(top_list_font_size, "rank")
                ELSE 0

\* the height of the header: its six lines and fourteen line spaces
HeaderHeight ==
    emitted[1].height + emitted[2].height + emitted[3].height
        + emitted[4].height + emitted[5].height + emitted[6].height
        + 14 * title_line_space

FullWidthCharts == {"time_histogram", "map", "packetfall"}

\* C18: a full-width chart of height H is drawn at the cursor and moves the
\* cursor by H times the pad factor; after the header and the time
\* histogram the cursor is the height of the header plus H times the factor.
C18_ChartAdvance ==
    /\ \A i \in 1..Len(emitted) :
        emitted[i].block \in FullWidthCharts =>
            /\ emitted[i].height = 10 * packet_histogram_height
            /\ (IF i < Len(emitted) THEN emitted[i + 1].y ELSE end_of_content)
                = emitted[i].y + packet_histogram_height * histogram_pad_factor_y
    /\ pc = "time_histogram" =>
        /\ emitted[7].y = HeaderHeight
        /\ end_of_content =
                HeaderHeight + packet_histogram_height * histogram_pad_factor_y

\* the header and the three full-width charts of a debug render were drawn
C18_Witness ==
    /\ pc = "packetfall"
    /\ debug
    /\ Len(emitted) = 9
    /\ emitted[7].y = 690
    /\ end_of_content = 690 + 3000

\* the blocks drawn so far, the lines of the ranks left out
Sections == SelectSeq([i \in 1..Len(emitted) |-> emitted[i].block],
                      LAMBDA b : b # "rank")

\* the sections of a whole render, in order
AllSections ==
    <<"title_version", "input", "generated", "date_range", "packets",
      "transports", "time_histogram">>
    \o (IF debug THEN <<"map", "packetfall">> ELSE << >>)
    \o <<"address", "address", "port", "port">>

\* C19: the sections are emitted in the order header, time histogram, map and
\* packet-fall if and only if DEBUG is set, address pair, port pair, and the
\* surface is destroyed after them; without DEBUG the address pair starts
\* where the time histogram left the cursor.
C19_SectionOrder ==
    /\ Len(Sections) <= Len(AllSections)
    /\ Sections = SubSeq(AllSections, 1, Len(Sections))
    /\ pc \in {"port", "done"} => Sections = AllSections
    /\ surface = "destroyed" => pc = "done"
    /\ ~debug /\ Len(Sections) > 7 =>
        emitted[8].y = emitted[7].y
                        + packet_histogram_height * histogram_pad_factor_y

\* a whole render with DEBUG set, and lines in both pairs
C19_Witness ==
    /\ pc = "done"
    /\ debug
    /\ surface = "destroyed"
    /\ Len(Sections) = 13
    /\ \E i \in 1..Len(lines) : lines[i].chart = "port"
====
